---------------------------- MODULE Spec2Model ----------------------------
(***************************************************************************)
(* Model of the notebook "TensorFlow Model Optimisation for Serving -      *)
(* MNIST": the cells run in notebook order; the state is what the cells    *)
(* leave behind (local files of the exported SavedModel directory, objects *)
(* of the Cloud Storage bucket, the deployed model and versions) and the   *)
(* position inside inference_cmle.  Spec runs the notebook; SpecCalls      *)
(* starts from the files a run leaves and steps through calls of           *)
(* inference_test and predict on drawn arguments and responses.            *)
(*                                                                         *)
(* A graph (GraphDef) is a set of nodes; a node has a name (the sequence   *)
(* of its '/'-separated components), an op, its inputs (node names, in     *)
(* order) and, for a Const, the value it holds.  The calls into TensorFlow *)
(* (freeze_graph, TransformGraph, simple_save), gsutil and gcloud are      *)
(* modelled at the call site by the effect the tool documents.             *)
(***************************************************************************)
EXTENDS Naturals, Sequences, FiniteSets, TLC

\* ------------------------------------------------------------- bounds
\* the batch argument of inference_cmle and inference_test is drawn from
\* 0..MaxBatch
MaxBatch == 2
\* their repeat argument is drawn from 0..MaxRepeat
MaxRepeat == 2
\* the notebook is run top to bottom at most MaxRuns times
MaxRuns == 2
\* most items in the 'predictions' of a response drawn for predict
MaxItems == 2

\* ------------------------------------------------------------ hparams
\* hparams.num_conv_layers
num_conv_layers == 3
\* len(hparams.hidden_units), for hidden_units=[512, 512]
num_hidden_layers == 2

\* ------------------------------------------------------------- graphs
Node(n, o, i, v) == [name |-> n, op |-> o, input |-> i, value |-> v]

Op(n, o, i) == Node(n, o, i, <<>>)

\* a literal constant of the graph-building code
Lit(n, v) == Node(n, "Const", <<>>, <<"lit", v>>)

\* TensorFlow's unique layer names: conv2d, conv2d_1, conv2d_2, ...
Suffix(base, i) == IF i = 0 THEN base ELSE base \o "_" \o ToString(i)

\* a layer variable and the Identity through which the layer reads it
Var(scope, leaf) ==
  { Op(<<scope, leaf>>, "VariableV2", <<>>),
    Op(<<scope, leaf, "read">>, "Identity", << <<scope, leaf>> >>) }

Names(g) == {x.name : x \in g}

NodeByName(g, n) == CHOOSE x \in g : x.name = n

\* what describe_graph prints, as predicates on one node
IsPlaceholder(x) == x.op = "Placeholder"
\* describe_graph's 'Variable' in node.op, over the ops of the model
OpHasVariable(x) == x.op \in {"Variable", "VariableV2", "ReadVariableOp", "AssignVariableOp"}
\* the ops convert_variables_to_constants takes for variables
IsVariable(x) == x.op \in {"Variable", "VariableV2", "VarHandleOp"}
IsIdentity(x) == x.op = "Identity"
IsUnused(x) == \E k \in 1..Len(x.name) : x.name[k] = "unused"
QuantParts == {"quantized_const", "quantized_min", "quantized_max", "eightbit"}
IsQuant(x) == \E k \in 1..Len(x.name) : x.name[k] \in QuantParts

\* output of the first i convolution blocks (_cnn_layers)
ConvOut(i) ==
  IF i = 0 THEN <<"Reshape">>
  ELSE <<Suffix("batch_normalization", i - 1), "FusedBatchNorm">>

cnn_layer(i) ==
  LET c == Suffix("conv2d", i)
      p == Suffix("max_pooling2d", i)
      b == Suffix("batch_normalization", i)
  IN  Var(c, "kernel") \cup Var(c, "bias")
      \cup Var(b, "gamma") \cup Var(b, "beta")
      \cup Var(b, "moving_mean") \cup Var(b, "moving_variance")
      \cup { Op(<<c, "Conv2D">>, "Conv2D", <<ConvOut(i), <<c, "kernel", "read">>>>),
             Op(<<c, "BiasAdd">>, "BiasAdd", <<<<c, "Conv2D">>, <<c, "bias", "read">>>>),
             Op(<<p, "MaxPool">>, "MaxPool", << <<c, "BiasAdd">> >>),
             Op(<<b, "FusedBatchNorm">>, "FusedBatchNorm",
                << <<p, "MaxPool">>, <<b, "gamma", "read">>, <<b, "beta", "read">>,
                   <<b, "moving_mean", "read">>, <<b, "moving_variance", "read">> >>) }

\* output of the first j hidden layers (_fully_connected_layers)
DenseOut(j) ==
  IF j = 0 THEN <<"flatten", "Reshape">>
  ELSE <<Suffix("dropout", j - 1), "Identity">>

dense_layer(j) ==
  LET d == Suffix("dense", j)
  IN  Var(d, "kernel") \cup Var(d, "bias")
      \cup { Op(<<d, "MatMul">>, "MatMul", <<DenseOut(j), <<d, "kernel", "read">>>>),
             Op(<<d, "BiasAdd">>, "BiasAdd", <<<<d, "MatMul">>, <<d, "bias", "read">>>>),
             Op(<<d, "Relu">>, "Relu", << <<d, "BiasAdd">> >>),
             Op(<<Suffix("dropout", j), "Identity">>, "Identity", << <<d, "Relu">> >>) }

\* a dense layer without activation (the 'unused' layer and 'logits')
linear_layer(scope, in) ==
  Var(scope, "kernel") \cup Var(scope, "bias")
  \cup { Op(<<scope, "MatMul">>, "MatMul", <<in, <<scope, "kernel", "read">>>>),
         Op(<<scope, "BiasAdd">>, "BiasAdd", <<<<scope, "MatMul">>, <<scope, "bias", "read">>>>) }

\* the node multi_class_head names head/predictions/ExpandDims (class ids)
OutputNode == <<"head", "predictions", "ExpandDims">>

\* the predictions of multi_class_head
head_predictions ==
  { Lit(<<"head", "predictions", "ArgMax", "dimension">>, "1"),
    Op(<<"head", "predictions", "ArgMax">>, "ArgMax",
       <<<<"logits", "BiasAdd">>, <<"head", "predictions", "ArgMax", "dimension">>>>),
    Lit(<<"head", "predictions", "ExpandDims", "dim">>, "-1"),
    Op(OutputNode, "ExpandDims",
       <<<<"head", "predictions", "ArgMax">>, <<"head", "predictions", "ExpandDims", "dim">>>>),
    Op(<<"head", "predictions", "probabilities">>, "Softmax", << <<"logits", "BiasAdd">> >>),
    Op(<<"head", "predictions", "str_classes">>, "AsString", <<OutputNode>>) }

\* the serving graph model_fn builds in PREDICT mode, with the saver the
\* export adds, for num_conv_layers = nc and len(hidden_units) = nh
model_fn(nc, nh) ==
  { Op(<<"input_image">>, "Placeholder", <<>>),
    Lit(<<"Reshape", "shape">>, "-1,28,28,1"),
    Op(<<"Reshape">>, "Reshape", <<<<"input_image">>, <<"Reshape", "shape">>>>),
    Lit(<<"flatten", "Reshape", "shape">>, "-1,n"),
    Op(<<"flatten", "Reshape">>, "Reshape", <<ConvOut(nc), <<"flatten", "Reshape", "shape">>>>),
    Op(<<"global_step">>, "VariableV2", <<>>),
    Lit(<<"save", "Const">>, "model"),
    Op(<<"save", "RestoreV2">>, "RestoreV2", << <<"save", "Const">> >>),
    Op(<<"save", "SaveV2">>, "SaveV2", <<<<"save", "Const">>, <<"global_step">>>>) }
  \cup UNION {cnn_layer(i) : i \in 0..(nc - 1)}
  \cup UNION {dense_layer(j) : j \in 0..(nh - 1)}
  \cup linear_layer("unused", <<"flatten", "Reshape">>)
  \cup linear_layer("logits", DenseOut(nh))
  \cup head_predictions

\* the names from which the nodes named in S are computed (S included)
RECURSIVE Reach(_, _, _)
Reach(g, seen, frontier) ==
  IF frontier = {} THEN seen
  ELSE LET new == { n \in UNION { {x.input[k] : k \in 1..Len(x.input)}
                                  : x \in {y \in g : y.name \in frontier} }
                    : n \notin seen }
       IN  Reach(g, seen \cup new, new)

Closure(g, S) == Reach(g, S, S)

extract_sub_graph(g, outputs) ==
  LET needed == Closure(g, outputs)
  IN  {x \in g : x.name \in needed}

\* a freeze that cuts the graph down and leaves the variables as they are
convert_variables_to_constants_kept(g, outputs, gen) ==
  extract_sub_graph(g, outputs)

\* ----------------------------------------------------------- freezing
\* freeze_graph.freeze_graph -> convert_variables_to_constants: keep what
\* the output nodes are computed from, and make every variable of it a
\* Const holding the value the checkpoint of training run gen stores
convert_variables_to_constants(g, outputs, gen) ==
  { IF IsVariable(x)
      THEN Node(x.name, "Const", <<>>, <<"ckpt", ToString(gen)>> \o x.name)
      ELSE x
    : x \in extract_sub_graph(g, outputs) }

\* ------------------------------------------- the graph transform tool
\* every reference to node from becomes a reference to node to
Rewire(g, from, to) ==
  { [x EXCEPT !.input = [k \in 1..Len(x.input) |->
                           IF x.input[k] = from THEN to ELSE x.input[k]]] : x \in g }

\* remove_nodes(op=...): every node of that op with one input, unless it is
\* a graph input or output, is dropped and its consumers read its input
RECURSIVE remove_nodes(_, _, _)
remove_nodes(g, op, required) ==
  LET C == {x \in g : x.op = op /\ Len(x.input) = 1 /\ x.name \notin required}
  IN  IF C = {} THEN g
      ELSE LET x == CHOOSE y \in C : TRUE
           IN  remove_nodes(Rewire(g \ {x}, x.name, x.input[1]), op, required)

IsConstIn(g, n) == \E x \in g : x.name = n /\ x.op = "Const"

Stateful == {"Placeholder", "Const", "Variable", "VariableV2", "VarHandleOp",
             "RestoreV2", "SaveV2"}

\* fold_constants: a node all of whose inputs are constants becomes a
\* constant of the same name; the graph is first cut down to what the
\* outputs need (the tool rewrites the graph for execution of the outputs)
RECURSIVE fold_constants(_, _)
fold_constants(g, outputs) ==
  LET h == extract_sub_graph(g, outputs)
      C == {x \in h : /\ x.op \notin Stateful
                      /\ Len(x.input) > 0
                      /\ \A k \in 1..Len(x.input) : IsConstIn(h, x.input[k])}
  IN  IF C = {} THEN h
      ELSE LET x == CHOOSE y \in C : TRUE
           IN  fold_constants((h \ {x}) \cup {Node(x.name, "Const", <<>>, <<"folded">> \o x.name)},
                              outputs)

\* fold_batch_norms: Mul(Conv2D|MatMul(in, Const), Const) becomes the
\* convolution, under the Mul's name, on weights scaled once and for all
BatchNormMatches(g) ==
  {m \in g : /\ m.op = "Mul" /\ Len(m.input) = 2
             /\ IsConstIn(g, m.input[2])
             /\ \E c \in g : /\ c.name = m.input[1]
                             /\ c.op \in {"Conv2D", "MatMul"}
                             /\ Len(c.input) = 2
                             /\ IsConstIn(g, c.input[2])}

RECURSIVE fold_batch_norms(_)
fold_batch_norms(g) ==
  IF BatchNormMatches(g) = {} THEN g
  ELSE LET m == CHOOSE y \in BatchNormMatches(g) : TRUE
           c == NodeByName(g, m.input[1])
           w == NodeByName(g, c.input[2])
       IN  fold_batch_norms(
             (g \ {m, c, w})
             \cup { Node(w.name, "Const", <<>>, <<"scaled">> \o w.name),
                    Op(m.name, c.op, c.input) })

\* fuse_resize_pad_and_conv: Conv2D(MirrorPad|ResizeBilinear(in, arg), w)
\* becomes one fused node of the convolution's name
PadConvMatches(g) ==
  {c \in g : /\ c.op = "Conv2D" /\ Len(c.input) = 2
             /\ \E p \in g : /\ p.name = c.input[1]
                             /\ p.op \in {"MirrorPad", "ResizeBilinear"}}

RECURSIVE fuse_resize_pad_and_conv(_)
fuse_resize_pad_and_conv(g) ==
  IF PadConvMatches(g) = {} THEN g
  ELSE LET c == CHOOSE y \in PadConvMatches(g) : TRUE
           p == NodeByName(g, c.input[1])
       IN  fuse_resize_pad_and_conv(
             (g \ {c}) \cup {Op(c.name, "FusedResizeAndPadConv2D", p.input \o <<c.input[2]>>)})

\* merge_duplicate_nodes: nodes that agree on everything but the name are
\* merged into one of them, graph inputs and outputs excepted
Duplicates(g, required) ==
  {x \in g : /\ x.name \notin required
             /\ \E y \in g : /\ y.name # x.name /\ y.name \notin required
                             /\ y.op = x.op /\ y.input = x.input /\ y.value = x.value}

RECURSIVE merge_duplicate_nodes(_, _)
merge_duplicate_nodes(g, required) ==
  IF Duplicates(g, required) = {} THEN g
  ELSE LET x == CHOOSE y \in Duplicates(g, required) : TRUE
           keep == CHOOSE y \in Duplicates(g, required) :
                     /\ y.name # x.name
                     /\ y.op = x.op /\ y.input = x.input /\ y.value = x.value
       IN  merge_duplicate_nodes(Rewire(g \ {x}, x.name, keep.name), required)

\* strip_unused_nodes: only what the outputs are computed from is kept
strip_unused_nodes(g, outputs) == extract_sub_graph(g, outputs)

\* sort_by_execution_order reorders the node list; it neither adds nor
\* drops a node, and a graph is the set of its nodes
sort_by_execution_order(g) == {x \in g : TRUE}

IsLargeConst(x) ==
  /\ x.op = "Const" /\ Len(x.value) > 0 /\ x.value[1] = "ckpt"
  /\ x.name[Len(x.name)] = "kernel"

\* quantize_weights: a large float Const becomes an eight-bit Const with
\* its range, and a Dequantize of the Const's name
quantize_weights(g) ==
  (g \ {x \in g : IsLargeConst(x)})
  \cup UNION { { Node(x.name \o <<"quantized_const">>, "Const", <<>>, <<"q">> \o x.value),
                 Node(x.name \o <<"quantized_min">>, "Const", <<>>, <<"min">> \o x.value),
                 Node(x.name \o <<"quantized_max">>, "Const", <<>>, <<"max">> \o x.value),
                 Op(x.name, "Dequantize",
                    << x.name \o <<"quantized_const">>, x.name \o <<"quantized_min">>,
                       x.name \o <<"quantized_max">> >>) }
               : x \in {y \in g : IsLargeConst(y)} }

Quantizable == {"Conv2D", "MatMul", "BiasAdd", "Relu", "MaxPool", "Reshape"}

\* quantize_nodes: a supported op is computed by its eight-bit equivalent,
\* and a Dequantize keeps its name for the consumers
quantize_nodes(g) ==
  (g \ {x \in g : x.op \in Quantizable})
  \cup UNION { { Op(x.name \o <<"eightbit">>, "Quantized" \o x.op, x.input),
                 Op(x.name, "Dequantize", << x.name \o <<"eightbit">> >>) }
               : x \in {y \in g : y.op \in Quantizable} }

ApplyTransform(t, g, inputs, outputs) ==
  CASE t = "remove_nodes(op=Identity)" -> remove_nodes(g, "Identity", inputs \cup outputs)
    [] t = "fold_constants(ignore_errors=true)" -> fold_constants(g, outputs)
    [] t = "fold_batch_norms" -> fold_batch_norms(g)
    [] t = "fuse_resize_pad_and_conv" -> fuse_resize_pad_and_conv(g)
    [] t = "quantize_weights" -> quantize_weights(g)
    [] t = "quantize_nodes" -> quantize_nodes(g)
    [] t = "merge_duplicate_nodes" -> merge_duplicate_nodes(g, inputs \cup outputs)
    [] t = "strip_unused_nodes" -> strip_unused_nodes(g, outputs)
    [] t = "sort_by_execution_order" -> sort_by_execution_order(g)

\* TransformGraph applies the transforms one after the other, in order
RECURSIVE TransformGraph(_, _, _, _)
TransformGraph(g, inputs, outputs, ts) ==
  IF ts = <<>> THEN g
  ELSE TransformGraph(ApplyTransform(Head(ts), g, inputs, outputs), inputs, outputs, Tail(ts))

\* the list without its first transform
transforms_keep_identity ==
  << "fold_constants(ignore_errors=true)", "fold_batch_norms", "fuse_resize_pad_and_conv",
     "merge_duplicate_nodes", "strip_unused_nodes", "sort_by_execution_order" >>

\* the list with the two commented-out transforms in it
transforms_quantised ==
  << "remove_nodes(op=Identity)", "fold_constants(ignore_errors=true)", "fold_batch_norms",
     "fuse_resize_pad_and_conv", "quantize_weights", "quantize_nodes",
     "merge_duplicate_nodes", "strip_unused_nodes", "sort_by_execution_order" >>

\* the notebook's list of transforms
transforms ==
  << "remove_nodes(op=Identity)",
     "fold_constants(ignore_errors=true)",
     "fold_batch_norms",
     "fuse_resize_pad_and_conv",
     "merge_duplicate_nodes",
     "strip_unused_nodes",
     "sort_by_execution_order" >>

\* ------------------------------------------------------------- files
\* a file's content: its kind, the graph it stores, the signatures of a
\* SavedModel and the training run (gen) its values come from
File(k, g, s, gen) == [kind |-> k, graph |-> g, sigs |-> s, gen |-> gen]

GraphDefFile(g, gen) == File("graphdef", g, <<>>, gen)

Tensor(n) == [node |-> n, port |-> 0]

Put(f, p, c) == [q \in DOMAIN f \cup {p} |-> IF q = p THEN c ELSE f[q]]

Has(f, p) == p \in DOMAIN f

\* paths below saved_model_dir, as sequences of path components
SavedModelPb == <<"saved_model.pb">>
VariablesData == <<"variables", "variables.data-00000-of-00001">>
VariablesIndex == <<"variables", "variables.index">>
FreezedPb == <<"freezed_model.pb">>
OptimisedPb == <<"optimised_model.pb">>
OptimisedDir == <<"optimised">>

IsPrefix(d, p) == Len(d) <= Len(p) /\ SubSeq(p, 1, Len(d)) = d

\* the files below directory d, by their path relative to d
Under(f, d) ==
  [r \in {SubSeq(p, Len(d) + 1, Len(p)) : p \in {q \in DOMAIN f : IsPrefix(d, q) /\ q # d}}
     |-> f[d \o r]]

\* os.path.getsize: a file grows with what it stores, and none is empty
FileSize(c) == 1 + Cardinality(c.graph) + Cardinality(DOMAIN c.sigs)

\* round(size/(1024.0), 3), the KB figure get_size prints, in thousandths
KB3(size) == (size * 1000 + 512) \div 1024

\* estimator.export_savedmodel with the raw serving input receiver: the
\* graph, the 'predict' signature of the head, and the variables
export_savedmodel(nc, nh, gen) ==
  LET g == model_fn(nc, nh)
      predict == [inputs |-> (<<"input_image">> :> Tensor(<<"input_image">>)),
                  outputs |-> ("logits" :> Tensor(<<"logits", "BiasAdd">>))
                           @@ ("probabilities" :> Tensor(<<"head", "predictions", "probabilities">>))
                           @@ ("class_ids" :> Tensor(OutputNode))
                           @@ ("classes" :> Tensor(<<"head", "predictions", "str_classes">>))]
  IN  (SavedModelPb :> File("savedmodel", g, "predict" :> predict, gen))
      @@ (VariablesData :> File("variables", {x \in g : IsVariable(x)}, <<>>, gen))
      @@ (VariablesIndex :> File("index", {}, <<>>, gen))

\* a get_size that leaves variables.index out
get_size_data_only(f, d) ==
  IF ~Has(f, d \o SavedModelPb)
    THEN [ok |-> FALSE, pb_size |-> 0, variables_size |-> 0, total |-> 0]
    ELSE LET pb_size == FileSize(f[d \o SavedModelPb])
             variables_size ==
               IF Has(f, d \o VariablesData) THEN FileSize(f[d \o VariablesData]) ELSE 0
         IN  [ok |-> TRUE, pb_size |-> pb_size, variables_size |-> variables_size,
              total |-> pb_size + variables_size,
              prints |-> [model |-> KB3(pb_size), variables |-> KB3(variables_size),
                          total |-> KB3(pb_size + variables_size)]]

\* get_size(model_dir): the sizes it adds up and the KB figures it prints,
\* or an error when os.path.getsize raises: for a missing saved_model.pb,
\* and for a missing variables.index next to the data file
get_size(f, d) ==
  IF \/ ~Has(f, d \o SavedModelPb)
     \/ Has(f, d \o VariablesData) /\ ~Has(f, d \o VariablesIndex)
    THEN [ok |-> FALSE, pb_size |-> 0, variables_size |-> 0, total |-> 0]
    ELSE LET pb_size == FileSize(f[d \o SavedModelPb])
             variables_size ==
               IF Has(f, d \o VariablesData)
                 THEN FileSize(f[d \o VariablesData]) + FileSize(f[d \o VariablesIndex])
                 ELSE 0
         IN  [ok |-> TRUE, pb_size |-> pb_size, variables_size |-> variables_size,
              total |-> pb_size + variables_size,
              prints |-> [model |-> KB3(pb_size), variables |-> KB3(variables_size),
                          total |-> KB3(pb_size + variables_size)]]

\* freeze_graph(saved_model_dir)
freeze_output_node_names == {<<"head", "predictions", "ExpandDims">>}

freeze_graph(f) ==
  IF \/ ~Has(f, SavedModelPb) \/ ~Has(f, VariablesData)
     \/ ~(freeze_output_node_names \subseteq Names(f[SavedModelPb].graph))
    THEN [ok |-> FALSE, fs |-> f]
    ELSE [ok |-> TRUE,
          fs |-> Put(f, FreezedPb,
                     GraphDefFile(convert_variables_to_constants(
                                    f[SavedModelPb].graph, freeze_output_node_names,
                                    f[VariablesData].gen),
                                  f[VariablesData].gen))]

\* optimize_graph(model_dir, graph_filename, transforms)
optimize_input_names == {}
\* an optimize_graph that names the logits as the output
optimize_output_names_logits == {<<"logits", "BiasAdd">>}

optimize_output_names == {<<"head", "predictions", "ExpandDims">>}

optimize_graph(f, graph_filename, ts) ==
  IF ~Has(f, graph_filename)
    THEN [ok |-> FALSE, fs |-> f]
    ELSE [ok |-> TRUE,
          fs |-> Put(f, OptimisedPb,
                     GraphDefFile(TransformGraph(f[graph_filename].graph, optimize_input_names,
                                                 optimize_output_names, ts),
                                  f[graph_filename].gen))]

\* the transforms optimize_graph hands to TransformGraph
optimize_graph_handed(ts) == ts

\* convert_graph_def_to_saved_model(graph_filepath): the export directory
\* is deleted first; get_tensor_by_name raises for a node the graph lacks;
\* simple_save writes the 'serving_default' signature, and nothing under
\* variables/ for a graph without variables (with variables, which no
\* session initialised, the save raises)
convert_output_tensor == <<"head", "predictions", "ExpandDims">>

\* a signature whose one input is keyed 'inputs'
simple_save_signature_inputs(g) ==
  [inputs |-> [n \in {<<"inputs">>} |-> Tensor(<<"input_image">>)],
   outputs |-> ("class_ids" :> Tensor(convert_output_tensor))]

\* the inputs and outputs convert_graph_def_to_saved_model gives simple_save
simple_save_signature(g) ==
  [inputs |-> [n \in {x.name : x \in {y \in g : IsPlaceholder(y)}} |-> Tensor(n)],
   outputs |-> ("class_ids" :> Tensor(convert_output_tensor))]

convert_graph_def_to_saved_model(f, graph_filepath) ==
  LET cleared == [p \in {q \in DOMAIN f : ~IsPrefix(OptimisedDir, q)} |-> f[p]]
  IN  IF ~Has(f, graph_filepath) THEN [ok |-> FALSE, fs |-> cleared]
      ELSE LET g == f[graph_filepath].graph
               sig == simple_save_signature(g)
           IN  IF convert_output_tensor \notin Names(g) \/ \E x \in g : IsVariable(x)
                 THEN [ok |-> FALSE, fs |-> cleared]
                 ELSE [ok |-> TRUE,
                       fs |-> Put(cleared, OptimisedDir \o SavedModelPb,
                                  File("savedmodel", g, "serving_default" :> sig,
                                       f[graph_filepath].gen))]

\* inference_test(saved_model_dir, signature, input_name): "ok", or the
\* step that raises: loading the predictor, feeding input_name, or
\* reading output['class_ids']
inference_test(f, d, signature, input_name) ==
  IF ~Has(f, d \o SavedModelPb) THEN "load: no SavedModel"
  ELSE LET m == f[d \o SavedModelPb]
       IN  IF (\E x \in m.graph : IsVariable(x)) /\ ~Has(f, d \o VariablesData)
             THEN "load: no variables"
           ELSE IF signature \notin DOMAIN m.sigs THEN "load: no such signature"
           ELSE IF input_name \notin DOMAIN m.sigs[signature].inputs THEN "feed: no such input"
           ELSE IF \E k \in DOMAIN m.sigs[signature].outputs :
                     m.sigs[signature].outputs[k].node \notin Names(m.graph)
             THEN "load: no such tensor"
           ELSE IF "class_ids" \notin DOMAIN m.sigs[signature].outputs THEN "report: KeyError"
           ELSE "ok"

\* ------------------------------------------------- gsutil and gcloud
BucketDir == <<"tf-model-optimisation">>
OriginalOrigin == <<"tf-model-optimisation", "original">>
OptimisedOrigin == <<"tf-model-optimisation", "optimised">>

HasUnder(b, d) == \E q \in DOMAIN b : IsPrefix(d, q) /\ q # d

\* gsutil -m rm -r gs://BUCKET/<d>: every object below d goes; with none
\* there the command fails
gsutil_rm_r(b, d) ==
  IF ~HasUnder(b, d) THEN [ok |-> FALSE, gcs |-> b]
  ELSE [ok |-> TRUE, gcs |-> [q \in {r \in DOMAIN b : ~IsPrefix(d, r)} |-> b[q]]]

\* a copy that never nests the source directory under the destination
gsutil_cp_r_flat(b, src, base, dst) ==
  IF DOMAIN src = {} THEN [ok |-> FALSE, gcs |-> b]
  ELSE LET new == {dst \o r : r \in DOMAIN src}
       IN  [ok |-> TRUE,
            gcs |-> [q \in DOMAIN b \cup new |->
                       IF q \in new THEN src[SubSeq(q, Len(dst) + 1, Len(q))] ELSE b[q]]]

\* gsutil -m cp -r <src> gs://BUCKET/<dst>: src holds the files of the
\* source directory named base; when objects exist below dst the directory
\* is copied into it (dst/base/...), otherwise it is copied as dst
gsutil_cp_r(b, src, base, dst) ==
  IF DOMAIN src = {} THEN [ok |-> FALSE, gcs |-> b]
  ELSE LET target == IF HasUnder(b, dst) THEN dst \o <<base>> ELSE dst
           new == {target \o r : r \in DOMAIN src}
       IN  [ok |-> TRUE,
            gcs |-> [q \in DOMAIN b \cup new |->
                       IF q \in new THEN src[SubSeq(q, Len(target) + 1, Len(q))] ELSE b[q]]]

\* gcloud ml-engine models create: fails when the model exists
models_create(m) == [ok |-> ~m, model |-> TRUE]

\* a create that replaces a version that exists
versions_create_replacing(m, vs, b, v, origin) ==
  IF ~m \/ ~Has(b, origin \o SavedModelPb)
    THEN [ok |-> FALSE, versions |-> vs]
    ELSE [ok |-> TRUE,
          versions |-> Put(vs, v, [origin |-> origin, saved_model |-> b[origin \o SavedModelPb]])]

\* gcloud ml-engine versions create v --model --origin: fails without the
\* model, for a version that exists, and for an origin that has no
\* saved_model.pb directly under it; the version serves a copy of the origin
versions_create(m, vs, b, v, origin) ==
  IF ~m \/ v \in DOMAIN vs \/ ~Has(b, origin \o SavedModelPb)
    THEN [ok |-> FALSE, versions |-> vs]
    ELSE [ok |-> TRUE,
          versions |-> Put(vs, v, [origin |-> origin, saved_model |-> b[origin \o SavedModelPb]])]

\* ------------------------------------------------ online prediction
\* Python values, as far as predict and inference_cmle tell them apart
PyNone == [type |-> "None", len |-> 0]
PyList(n) == [type |-> "list", len |-> n]
\* one instance: {'input_image': [...]}
PyDict == [type |-> "dict", len |-> 1]

\* the signature a version serves: 'serving_default', or the only one
ServingSignature(m) ==
  IF "serving_default" \in DOMAIN m.sigs THEN {m.sigs["serving_default"]}
  ELSE IF Cardinality(DOMAIN m.sigs) = 1 THEN {m.sigs[k] : k \in DOMAIN m.sigs}
  ELSE {}

\* what execute ends in: it raises, or it returns the response body, a
\* dict, here a function of its keys; item i of 'predictions' has the value
\* i for each of its keys
Response(k, n, keys) ==
  [kind |-> k,
   body |-> IF k = "predictions"
              THEN ("predictions" :> [i \in 1..n |-> [key \in keys |-> i]])
            ELSE IF k = "error" THEN ("error" :> "Prediction failed")
            ELSE [key \in {} |-> key]]

\* api.projects().predict(body, name).execute(): what the call can end in.
\* It may raise (kind "raise") or answer with an error object whatever the
\* request; it answers with predictions, one item per instance, each with
\* the outputs of the served signature, only for a list of instances sent
\* to a version that exists and takes 'input_image'
execute(vs, version, request_data) ==
  { Response("raise", 0, {}), Response("error", 0, {}) }
  \cup { Response("predictions", request_data.instances.len, DOMAIN sig.outputs)
         : sig \in { t \in (IF version \in DOMAIN vs
                              THEN ServingSignature(vs[version].saved_model) ELSE {})
                     : /\ request_data.instances.type = "list"
                       /\ <<"input_image">> \in DOMAIN t.inputs } }

\* predict(version, instances): the request it builds
request_data(instances) == [instances |-> instances]

\* a predict that leaves out the items without 'class_ids'
class_ids_skipping(response) ==
  LET body == response.body
  IN  IF "predictions" \notin DOMAIN body THEN PyNone
      ELSE LET items == SelectSeq(body["predictions"], LAMBDA item : "class_ids" \in DOMAIN item)
           IN  [type |-> "list", len |-> Len(items),
                items |-> [i \in 1..Len(items) |-> items[i]["class_ids"]]]

\* predict(version, instances): what it returns for a response. The list
\* comprehension over response["predictions"] raises for a missing
\* 'predictions' key and for an item without 'class_ids'; the bare except
\* leaves class_ids at None
class_ids(response) ==
  LET body == response.body
  IN  IF "predictions" \notin DOMAIN body THEN PyNone
      ELSE LET items == body["predictions"]
           IN  IF \E i \in 1..Len(items) : "class_ids" \notin DOMAIN items[i] THEN PyNone
               ELSE [type |-> "list", len |-> Len(items),
                     items |-> [i \in 1..Len(items) |-> items[i]["class_ids"]]]

\* predict(version, instances): what it prints for a response
predict_prints(response) ==
  IF class_ids(response) = PyNone THEN << response.body >> ELSE <<>>

\* inference_cmle's warm-up argument: instances[0]
warmup_instances(batch) == PyDict

\* inference_cmle's timed argument: instances
timed_instances(batch) == PyList(batch)

\* the cells with optimise run before freeze
Cells_optimise_first ==
  << "train", "export", "inference_test_original", "describe_original",
     "get_size_original", "optimise", "describe_freezed", "freeze",
     "describe_optimised", "convert", "get_size_optimised",
     "inference_test_optimised", "gsutil_rm", "gsutil_cp_original",
     "gsutil_cp_optimised", "models_create", "versions_create_v_org",
     "versions_create_v_opt", "inference_cmle_v_org", "inference_cmle_v_opt" >>

\* ---------------------------------------------------------- the run
\* the code cells that act on the state, in notebook order
Cells ==
  << "train", "export", "inference_test_original", "describe_original",
     "get_size_original", "freeze", "describe_freezed", "optimise",
     "describe_optimised", "convert", "get_size_optimised",
     "inference_test_optimised", "gsutil_rm", "gsutil_cp_original",
     "gsutil_cp_optimised", "models_create", "versions_create_v_org",
     "versions_create_v_opt", "inference_cmle_v_org", "inference_cmle_v_opt" >>

VARIABLES
  run,         \* which run of the notebook this is (a fresh kernel each)
  pc,          \* index in Cells of the next cell
  checkpoint,  \* training run whose checkpoint model_dir holds, 0: none
  fs,          \* files of saved_model_dir, by path below it
  gcs,         \* objects of gs://BUCKET, by path
  model,       \* whether model mnist_classifier exists
  versions,    \* the versions of the model, by name
  failed,      \* cells of this run that ended in an error
  log,         \* file events of this run: <<cell, "read" | "write", path>>
  out,         \* what cells of this run reported, by cell
  cmle,        \* the call of inference_cmle in progress
  call         \* a call of inference_test or predict made by hand, in progress

vars == <<run, pc, checkpoint, fs, gcs, model, versions, failed, log, out, cmle, call>>

Idle ==
  [pc |-> "idle", version |-> "", batch |-> 0, repeat |-> 0, i |-> 0,
   timer |-> "off", calls |-> <<>>, output |-> PyNone]

\* no call made by hand is in progress
NoCall == [fn |-> "none"]

\* left in the project by an earlier session
StaleModel == File("savedmodel", {}, <<>>, 0)
StaleBucket ==
  ((OriginalOrigin \o SavedModelPb) :> StaleModel)
  @@ ((OptimisedOrigin \o SavedModelPb) :> StaleModel)
StaleVersions ==
  ("v_org" :> [origin |-> OriginalOrigin, saved_model |-> StaleModel])
  @@ ("v_opt" :> [origin |-> OptimisedOrigin, saved_model |-> StaleModel])

Init ==
  /\ run = 1
  /\ pc = 1
  /\ checkpoint = 0
  /\ fs = <<>>
  /\ gcs \in {<<>>, StaleBucket}
  /\ \E deployed \in BOOLEAN :
       /\ model = deployed
       /\ versions = IF deployed THEN StaleVersions ELSE <<>>
  /\ failed = {}
  /\ log = <<>>
  /\ out = <<>>
  /\ cmle = Idle
  /\ call = NoCall

At(cell) == pc <= Len(Cells) /\ Cells[pc] = cell /\ cmle.pc = "idle"

\* the cell ends, with or without an error
Ends(cell, ok) ==
  /\ pc' = pc + 1
  /\ failed' = IF ok THEN failed ELSE failed \cup {cell}

Event(cell, kind, path) == <<cell, kind, path>>

\* cell 1.3.3: the previous model_dir is removed, then training writes
\* a checkpoint
Train ==
  /\ At("train")
  /\ checkpoint' = run
  /\ fs' = <<>>
  /\ Ends("train", TRUE)
  /\ UNCHANGED <<run, gcs, model, versions, log, out, cmle, call>>

\* cell 1.4: export_dir is removed, then the estimator is exported
Export ==
  /\ At("export")
  /\ fs' = IF checkpoint = 0 THEN <<>> ELSE export_savedmodel(num_conv_layers, num_hidden_layers, checkpoint)
  /\ log' = IF checkpoint = 0 THEN log
            ELSE log \o << Event("export", "write", SavedModelPb),
                           Event("export", "write", VariablesData),
                           Event("export", "write", VariablesIndex) >>
  /\ Ends("export", checkpoint # 0)
  /\ UNCHANGED <<run, checkpoint, gcs, model, versions, out, cmle, call>>

\* cells 3 and 10: inference_test on a SavedModel directory
InferenceTest(cell, d, signature, input_name) ==
  /\ At(cell)
  /\ LET r == inference_test(fs, d, signature, input_name)
     IN  /\ out' = Put(out, cell, r)
         /\ Ends(cell, r = "ok")
  /\ log' = log \o << Event(cell, "read", d \o SavedModelPb) >>
  /\ UNCHANGED <<run, checkpoint, fs, gcs, model, versions, cmle, call>>

InferenceTestOriginal ==
  InferenceTest("inference_test_original", <<>>, "predict", <<"input_image">>)

InferenceTestOptimised ==
  InferenceTest("inference_test_optimised", OptimisedDir, "serving_default", <<"input_image">>)

\* cells 4, 6 and 8: describe_graph of a graph read from a file
Describe(cell, path) ==
  /\ At(cell)
  /\ out' = IF Has(fs, path)
              THEN Put(out, cell, Cardinality(fs[path].graph))
              ELSE out
  /\ log' = log \o << Event(cell, "read", path) >>
  /\ Ends(cell, Has(fs, path))
  /\ UNCHANGED <<run, checkpoint, fs, gcs, model, versions, cmle, call>>

DescribeOriginal == Describe("describe_original", SavedModelPb)
DescribeFreezed == Describe("describe_freezed", FreezedPb)
DescribeOptimised == Describe("describe_optimised", OptimisedPb)

\* get_size cells
GetSize(cell, d) ==
  /\ At(cell)
  /\ LET r == get_size(fs, d)
     IN  /\ out' = Put(out, cell, r)
         /\ Ends(cell, r.ok)
  /\ log' = log \o << Event(cell, "read", d \o SavedModelPb) >>
  /\ UNCHANGED <<run, checkpoint, fs, gcs, model, versions, cmle, call>>

GetSizeOriginal == GetSize("get_size_original", <<>>)
GetSizeOptimised == GetSize("get_size_optimised", OptimisedDir)

\* cell 5: freeze_graph(saved_model_dir)
Freeze ==
  /\ At("freeze")
  /\ LET r == freeze_graph(fs)
     IN  /\ fs' = r.fs
         /\ log' = log \o << Event("freeze", "read", SavedModelPb),
                             Event("freeze", "read", VariablesData) >>
                       \o (IF r.ok THEN << Event("freeze", "write", FreezedPb) >> ELSE <<>>)
         /\ Ends("freeze", r.ok)
  /\ UNCHANGED <<run, checkpoint, gcs, model, versions, out, cmle, call>>

\* cell 8: optimize_graph(saved_model_dir, 'freezed_model.pb', transforms)
Optimise ==
  /\ At("optimise")
  /\ LET r == optimize_graph(fs, FreezedPb, transforms)
     IN  /\ fs' = r.fs
         /\ log' = log \o << Event("optimise", "read", FreezedPb) >>
                       \o (IF r.ok THEN << Event("optimise", "write", OptimisedPb) >> ELSE <<>>)
         /\ Ends("optimise", r.ok)
  /\ out' = Put(out, "optimise", optimize_graph_handed(transforms))
  /\ UNCHANGED <<run, checkpoint, gcs, model, versions, cmle, call>>

\* cell 9: convert_graph_def_to_saved_model(optimised_filepath)
Convert ==
  /\ At("convert")
  /\ LET r == convert_graph_def_to_saved_model(fs, OptimisedPb)
     IN  /\ fs' = r.fs
         /\ log' = log \o << Event("convert", "read", OptimisedPb) >>
                       \o (IF r.ok THEN << Event("convert", "write", OptimisedDir \o SavedModelPb) >>
                           ELSE <<>>)
         /\ Ends("convert", r.ok)
  /\ UNCHANGED <<run, checkpoint, gcs, model, versions, out, cmle, call>>

\* the directory export_savedmodel made for this run (a timestamp)
ExportName == "export-" \o ToString(checkpoint)

\* upload cells
GsutilRm ==
  /\ At("gsutil_rm")
  /\ LET r == gsutil_rm_r(gcs, BucketDir)
     IN  gcs' = r.gcs /\ Ends("gsutil_rm", r.ok)
  /\ UNCHANGED <<run, checkpoint, fs, model, versions, log, out, cmle, call>>

GsutilCpOriginal ==
  /\ At("gsutil_cp_original")
  /\ LET r == gsutil_cp_r(gcs, Under(fs, <<>>), ExportName, OriginalOrigin)
     IN  gcs' = r.gcs /\ Ends("gsutil_cp_original", r.ok)
  /\ UNCHANGED <<run, checkpoint, fs, model, versions, log, out, cmle, call>>

GsutilCpOptimised ==
  /\ At("gsutil_cp_optimised")
  /\ LET r == gsutil_cp_r(gcs, Under(fs, OptimisedDir), "optimised", BucketDir)
     IN  gcs' = r.gcs /\ Ends("gsutil_cp_optimised", r.ok)
  /\ UNCHANGED <<run, checkpoint, fs, model, versions, log, out, cmle, call>>

\* deploy cells
ModelsCreate ==
  /\ At("models_create")
  /\ LET r == models_create(model)
     IN  model' = r.model /\ Ends("models_create", r.ok)
  /\ UNCHANGED <<run, checkpoint, fs, gcs, versions, log, out, cmle, call>>

VersionsCreate(cell, v, origin) ==
  /\ At(cell)
  /\ LET r == versions_create(model, versions, gcs, v, origin)
     IN  versions' = r.versions /\ Ends(cell, r.ok)
  /\ UNCHANGED <<run, checkpoint, fs, gcs, model, log, out, cmle, call>>

VersionsCreateOrg == VersionsCreate("versions_create_v_org", "v_org", OriginalOrigin)
VersionsCreateOpt == VersionsCreate("versions_create_v_opt", "v_opt", OptimisedOrigin)

\* the model and its versions are deleted from outside the notebook
ExternalDelete ==
  /\ model
  /\ model' = FALSE
  /\ versions' = <<>>
  /\ UNCHANGED <<run, pc, checkpoint, fs, gcs, failed, log, out, cmle, call>>

\* ------------------------------------------------- inference_cmle
\* a range that runs one step too far
range_inclusive(n) == 0..n

\* a range without its first element
range_skipping_zero(n) == {i \in 1..n : i < n}

\* range(repeat) of the loops: for i in range(repeat)
range(n) == {i \in 0..n : i < n}

CmleVersion(cell) == IF cell = "inference_cmle_v_org" THEN "v_org" ELSE "v_opt"

InCmle == pc <= Len(Cells) /\ Cells[pc] \in {"inference_cmle_v_org", "inference_cmle_v_opt"}

Call(phase, body, r) ==
  [phase |-> phase, body |-> body, timer |-> cmle.timer, result |-> r.kind]

\* the call starts: the instances are built
CmleStart ==
  /\ InCmle /\ cmle.pc = "idle"
  /\ \E batch \in 0..MaxBatch, repeat \in 0..MaxRepeat :
       cmle' = [Idle EXCEPT !.pc = "warmup", !.version = CmleVersion(Cells[pc]),
                            !.batch = batch, !.repeat = repeat]
  /\ UNCHANGED <<run, pc, checkpoint, fs, gcs, model, versions, failed, log, out, call>>

\* predict(version, instances[0]); instances[0] raises for an empty list
CmleWarmup ==
  /\ cmle.pc = "warmup"
  /\ IF cmle.batch = 0
       THEN cmle' = [cmle EXCEPT !.pc = "error"]
       ELSE \E r \in execute(versions, cmle.version, request_data(warmup_instances(cmle.batch))) :
              cmle' = [cmle EXCEPT
                         !.calls = Append(@, Call("warmup", request_data(warmup_instances(cmle.batch)), r)),
                         !.pc = IF r.kind = "raise" THEN "error" ELSE "timer"]
  /\ UNCHANGED <<run, pc, checkpoint, fs, gcs, model, versions, failed, log, out, call>>

\* time_start = datetime.utcnow(); output = None
CmleStartTimer ==
  /\ cmle.pc = "timer"
  /\ cmle' = [cmle EXCEPT !.timer = "running", !.output = PyNone, !.i = 0, !.pc = "loop"]
  /\ UNCHANGED <<run, pc, checkpoint, fs, gcs, model, versions, failed, log, out, call>>

\* one iteration of the loop: output = predict(version, instances)
CmleLoop ==
  /\ cmle.pc = "loop" /\ cmle.i \in range(cmle.repeat)
  /\ \E r \in execute(versions, cmle.version, request_data(timed_instances(cmle.batch))) :
       cmle' = [cmle EXCEPT
                  !.calls = Append(@, Call("timed", request_data(timed_instances(cmle.batch)), r)),
                  !.output = IF r.kind = "raise" THEN @ ELSE class_ids(r),
                  !.i = IF r.kind = "raise" THEN @ ELSE @ + 1,
                  !.pc = IF r.kind = "raise" THEN "error" ELSE "loop"]
  /\ UNCHANGED <<run, pc, checkpoint, fs, gcs, model, versions, failed, log, out, call>>

\* the loop is over: time_end = datetime.utcnow()
CmleStopTimer ==
  /\ cmle.pc = "loop" /\ cmle.i \notin range(cmle.repeat)
  /\ cmle' = [cmle EXCEPT !.timer = "stopped", !.pc = "report"]
  /\ UNCHANGED <<run, pc, checkpoint, fs, gcs, model, versions, failed, log, out, call>>

\* the report: len(output), time_elapsed_sec/repeat and output[0] raise for
\* output None, repeat 0 and an empty output
CmleReport ==
  /\ cmle.pc = "report"
  /\ LET ok == cmle.output.type = "list" /\ cmle.repeat # 0 /\ cmle.output.len > 0
     IN  /\ out' = Put(out, Cells[pc], [calls |-> Len(cmle.calls), ok |-> ok])
         /\ Ends(Cells[pc], ok)
  /\ cmle' = Idle
  /\ UNCHANGED <<run, checkpoint, fs, gcs, model, versions, log, call>>

\* an exception left inference_cmle: the cell ends in an error
CmleAbort ==
  /\ cmle.pc = "error"
  /\ out' = Put(out, Cells[pc], [calls |-> Len(cmle.calls), ok |-> FALSE])
  /\ Ends(Cells[pc], FALSE)
  /\ cmle' = Idle
  /\ UNCHANGED <<run, checkpoint, fs, gcs, model, versions, log, call>>

\* the notebook is run again, top to bottom, in a fresh kernel
Restart ==
  /\ pc = Len(Cells) + 1
  /\ run < MaxRuns
  /\ run' = run + 1
  /\ pc' = 1
  /\ failed' = {}
  /\ log' = <<>>
  /\ out' = <<>>
  /\ UNCHANGED <<checkpoint, fs, gcs, model, versions, cmle, call>>

Next ==
  \/ Train \/ Export \/ InferenceTestOriginal \/ DescribeOriginal \/ GetSizeOriginal
  \/ Freeze \/ DescribeFreezed \/ Optimise \/ DescribeOptimised \/ Convert
  \/ GetSizeOptimised \/ InferenceTestOptimised
  \/ GsutilRm \/ GsutilCpOriginal \/ GsutilCpOptimised
  \/ ModelsCreate \/ VersionsCreateOrg \/ VersionsCreateOpt \/ ExternalDelete
  \/ CmleStart \/ CmleWarmup \/ CmleStartTimer \/ CmleLoop \/ CmleStopTimer
  \/ CmleReport \/ CmleAbort
  \/ Restart

Spec == Init /\ [][Next]_vars

\* ------------------------------------------------------------ claims
Idx(cell) == CHOOSE k \in 1..Len(Cells) : Cells[k] = cell

\* the cell has run in this run of the notebook
Ran(cell) == pc > Idx(cell)

OptimisedSavedModel == OptimisedDir \o SavedModelPb

\* a read of path at position i of the log follows a write of it by cell
WrittenBefore(i, cell, path) ==
  \E j \in 1..(i - 1) : log[j] = Event(cell, "write", path)

\* C1: in a run in notebook order every file a step reads was written by an
\* earlier step: freezed_model.pb by freeze before optimise reads it,
\* optimised_model.pb by optimise before convert reads it; the optimised
\* SavedModel exists only when both files exist; none of the three steps fails
C1_FreezeOptimiseConvert ==
  /\ \A i \in 1..Len(log) :
       log[i][2] = "read" => \E j \in 1..(i - 1) : log[j][2] = "write" /\ log[j][3] = log[i][3]
  /\ \A i \in 1..Len(log) :
       /\ log[i] = Event("optimise", "read", FreezedPb) => WrittenBefore(i, "freeze", FreezedPb)
       /\ log[i] = Event("convert", "read", OptimisedPb) => WrittenBefore(i, "optimise", OptimisedPb)
  /\ Has(fs, OptimisedSavedModel) => Has(fs, FreezedPb) /\ Has(fs, OptimisedPb)
  /\ failed \cap {"freeze", "optimise", "convert"} = {}

C1_Witness ==
  /\ Ran("convert")
  /\ Has(fs, OptimisedSavedModel)
  /\ \E i, j, k \in 1..Len(log) :
       /\ i < j /\ j < k
       /\ log[i] = Event("freeze", "write", FreezedPb)
       /\ log[j] = Event("optimise", "write", OptimisedPb)
       /\ log[k] = Event("convert", "write", OptimisedSavedModel)

\* C2: after the conversion <saved_model_dir>/optimised holds a SavedModel
\* whose 'serving_default' signature has as inputs exactly the Placeholder
\* nodes of the optimised graph, keyed by node name, and the one output
\* 'class_ids' bound to head/predictions/ExpandDims:0; inference_test with
\* signature 'serving_default' and input_name 'input_image' succeeds on it
C2_OptimisedSavedModelSignature ==
  /\ Has(fs, OptimisedSavedModel) =>
       LET m == fs[OptimisedSavedModel]
       IN  /\ m.kind = "savedmodel"
           /\ Has(fs, OptimisedPb) /\ m.graph = fs[OptimisedPb].graph
           /\ "serving_default" \in DOMAIN m.sigs
           /\ LET sig == m.sigs["serving_default"]
              IN  /\ DOMAIN sig.inputs = {x.name : x \in {y \in fs[OptimisedPb].graph : y.op = "Placeholder"}}
                  /\ \A n \in DOMAIN sig.inputs : sig.inputs[n] = [node |-> n, port |-> 0]
                  /\ DOMAIN sig.outputs = {"class_ids"}
                  /\ sig.outputs["class_ids"] = [node |-> <<"head", "predictions", "ExpandDims">>, port |-> 0]
  /\ Ran("convert") => Has(fs, OptimisedSavedModel)
  /\ Ran("inference_test_optimised") =>
       /\ "inference_test_optimised" \in DOMAIN out
       /\ out["inference_test_optimised"] = "ok"

C2_Witness ==
  /\ Ran("inference_test_optimised")
  /\ out["inference_test_optimised"] = "ok"
  /\ <<"input_image">> \in DOMAIN fs[OptimisedSavedModel].sigs["serving_default"].inputs

\* C3: no graph made by freezing (freezed_model.pb, optimised_model.pb, the
\* optimised SavedModel) has a node whose op contains 'Variable'; the
\* optimised SavedModel has no variables data file and get_size reports a
\* variables size of 0 for it
C3_FrozenHasNoVariables ==
  /\ \A p \in {FreezedPb, OptimisedPb, OptimisedSavedModel} :
       Has(fs, p) => \A x \in fs[p].graph : ~OpHasVariable(x)
  /\ ~Has(fs, OptimisedDir \o VariablesData)
  /\ Ran("freeze") => Has(fs, FreezedPb)
  /\ Ran("get_size_optimised") =>
       /\ "get_size_optimised" \in DOMAIN out
       /\ out["get_size_optimised"].ok
       /\ out["get_size_optimised"].variables_size = 0

C3_Witness ==
  /\ Ran("get_size_optimised")
  /\ out["get_size_optimised"].ok
  /\ out["get_size_optimised"].variables_size = 0
  /\ out["get_size_original"].variables_size > 0
  /\ \E x \in fs[SavedModelPb].graph : OpHasVariable(x)
  /\ \E x \in fs[FreezedPb].graph : x.op = "Const" /\ x.value[1] = "ckpt"

\* C4: every node of the graph optimize_graph writes is one the output node
\* head/predictions/ExpandDims is computed from; none is a node of the
\* 'unused' layer and none has op Identity
C4_OptimisedIsPruned ==
  /\ Has(fs, OptimisedPb) =>
       LET g == fs[OptimisedPb].graph
       IN  /\ g = extract_sub_graph(g, {<<"head", "predictions", "ExpandDims">>})
           /\ \A x \in g : ~IsUnused(x) /\ x.op # "Identity"
  /\ Ran("optimise") => Has(fs, OptimisedPb)

C4_Witness ==
  /\ Ran("optimise")
  /\ Has(fs, OptimisedPb)
  /\ <<"head", "predictions", "ExpandDims">> \in Names(fs[OptimisedPb].graph)
  /\ \E x \in fs[SavedModelPb].graph : IsUnused(x)
  /\ \E x \in fs[FreezedPb].graph : x.op = "Identity"

NoneFailed(cells) == failed \cap cells = {}

\* C5: once the upload cells have run, gs://BUCKET/tf-model-optimisation/original
\* and .../optimised have directly under them the saved_model.pb of the
\* original and of the optimised SavedModel of this run; a version the deploy
\* cells of this run created serves that model from that origin
C5_VersionsServeUploads ==
  /\ NoneFailed({"gsutil_cp_original", "gsutil_cp_optimised"})
  /\ Ran("gsutil_cp_original") =>
       /\ Has(fs, SavedModelPb) /\ Has(gcs, OriginalOrigin \o SavedModelPb)
       /\ gcs[OriginalOrigin \o SavedModelPb] = fs[SavedModelPb]
       /\ "predict" \in DOMAIN fs[SavedModelPb].sigs
       /\ fs[SavedModelPb].gen = run
  /\ Ran("gsutil_cp_optimised") =>
       /\ Has(fs, OptimisedSavedModel) /\ Has(gcs, OptimisedOrigin \o SavedModelPb)
       /\ gcs[OptimisedOrigin \o SavedModelPb] = fs[OptimisedSavedModel]
       /\ fs[OptimisedSavedModel].gen = run
  /\ (Ran("versions_create_v_org") /\ NoneFailed({"versions_create_v_org"}) /\ "v_org" \in DOMAIN versions) =>
       versions["v_org"] = [origin |-> <<"tf-model-optimisation", "original">>,
                            saved_model |-> fs[SavedModelPb]]
  /\ (Ran("versions_create_v_opt") /\ NoneFailed({"versions_create_v_opt"}) /\ "v_opt" \in DOMAIN versions) =>
       versions["v_opt"] = [origin |-> <<"tf-model-optimisation", "optimised">>,
                            saved_model |-> fs[OptimisedSavedModel]]

C5_Witness ==
  /\ Ran("versions_create_v_opt")
  /\ NoneFailed({"models_create", "versions_create_v_org", "versions_create_v_opt"})
  /\ DOMAIN versions = {"v_org", "v_opt"}
  /\ versions["v_org"].saved_model = fs[SavedModelPb]
  /\ versions["v_opt"].saved_model = fs[OptimisedSavedModel]
  /\ versions["v_org"].saved_model # versions["v_opt"].saved_model

DeployCells == {"models_create", "versions_create_v_org", "versions_create_v_opt"}

DeployedVersion(cell) == IF cell = "versions_create_v_org" THEN "v_org" ELSE "v_opt"

\* C6: no cell of the notebook deletes the model or a version, or changes a
\* version that exists; a deploy cell succeeds only when what it creates does
\* not exist yet, and when it exists the cell ends in an error and leaves the
\* model and the versions as they were
C6_DeployNeedsFreshModel ==
  [][ /\ (model /\ ~model') => pc' = pc
      /\ \A v \in DOMAIN versions :
           (v \notin DOMAIN versions' \/ versions'[v] # versions[v]) => pc' = pc
      /\ (At("models_create") /\ pc' = pc + 1) =>
           /\ ("models_create" \notin failed') <=> ~model
           /\ model => (model' /\ versions' = versions)
      /\ \A cell \in {"versions_create_v_org", "versions_create_v_opt"} :
           (At(cell) /\ pc' = pc + 1) =>
             /\ (cell \notin failed') => DeployedVersion(cell) \notin DOMAIN versions
             /\ DeployedVersion(cell) \in DOMAIN versions =>
                  (cell \in failed' /\ model' = model /\ versions' = versions)
    ]_vars

C6_Witness ==
  /\ run = 2
  /\ Ran("versions_create_v_opt")
  /\ DeployCells \subseteq failed
  /\ model
  /\ DOMAIN versions = {"v_org", "v_opt"}
  /\ versions["v_org"].saved_model.gen = 1
  /\ versions["v_opt"].saved_model.gen = 1
  /\ gcs[OriginalOrigin \o SavedModelPb].gen = 2

\* C7: the transforms the notebook passes are the seven it lists, in that
\* order, with neither quantize_weights nor quantize_nodes; optimize_graph
\* hands them on unchanged, and no node of the optimised graph has 'quant'
\* in its name
C7_NoQuantisation ==
  /\ Ran("optimise") =>
       /\ "optimise" \in DOMAIN out
       /\ out["optimise"] = << "remove_nodes(op=Identity)",
                               "fold_constants(ignore_errors=true)",
                               "fold_batch_norms",
                               "fuse_resize_pad_and_conv",
                               "merge_duplicate_nodes",
                               "strip_unused_nodes",
                               "sort_by_execution_order" >>
       /\ Has(fs, OptimisedPb)
  /\ Has(fs, OptimisedPb) => \A x \in fs[OptimisedPb].graph : ~IsQuant(x)

C7_Witness ==
  /\ Ran("optimise")
  /\ Len(out["optimise"]) = 7
  /\ \E x \in fs[OptimisedPb].graph : IsLargeConst(x)

\* C8: freeze_graph, optimize_graph and convert_graph_def_to_saved_model name
\* the same output node; it is in the graph after every stage, and none of
\* the three stages fails on looking it up
C8_OutputNodeKept ==
  /\ freeze_output_node_names = {<<"head", "predictions", "ExpandDims">>}
  /\ optimize_output_names = freeze_output_node_names
  /\ {convert_output_tensor} = freeze_output_node_names
  /\ \A p \in {SavedModelPb, FreezedPb, OptimisedPb, OptimisedSavedModel} :
       Has(fs, p) => <<"head", "predictions", "ExpandDims">> \in Names(fs[p].graph)
  /\ Ran("convert") =>
       /\ NoneFailed({"freeze", "optimise", "convert"})
       /\ Has(fs, OptimisedSavedModel)
       /\ fs[OptimisedSavedModel].sigs["serving_default"].outputs["class_ids"].node
            \in Names(fs[OptimisedSavedModel].graph)

C8_Witness ==
  /\ Ran("convert")
  /\ \A p \in {SavedModelPb, FreezedPb, OptimisedPb, OptimisedSavedModel} :
       Has(fs, p) /\ OutputNode \in Names(fs[p].graph)
  /\ Cardinality(fs[OptimisedPb].graph) < Cardinality(fs[FreezedPb].graph)

C10_WarmupIsAPrediction ==
  \A k \in 1..Len(cmle.calls) :
    cmle.calls[k].phase = "warmup" =>
      /\ cmle.calls[k].body.instances.type = "list"
      /\ cmle.pc \in {"timer", "loop", "report"} => cmle.calls[k].result = "predictions"

\* --------------------------------------- the functions, called by hand
\* the notebook's variables, which a call made by hand leaves alone
notebook == <<run, pc, checkpoint, fs, gcs, model, versions, failed, log, out, cmle>>

\* the files of saved_model_dir once the cells up to the conversion ran
ExportedFs == export_savedmodel(num_conv_layers, num_hidden_layers, 1)

PipelineFs ==
  convert_graph_def_to_saved_model(
    optimize_graph(freeze_graph(ExportedFs).fs, FreezedPb, transforms).fs,
    OptimisedPb).fs

\* the notebook has run; the functions it defined are called by hand
InitCalls ==
  /\ run = 1
  /\ pc = Len(Cells) + 1
  /\ checkpoint = 1
  /\ fs = PipelineFs
  /\ gcs = <<>>
  /\ model = FALSE
  /\ versions = <<>>
  /\ failed = {}
  /\ log = <<>>
  /\ out = <<>>
  /\ cmle = Idle
  /\ call = NoCall

\* ------------------------------------------------- inference_test
\* what from_saved_model raises for
LoadErrors ==
  {"load: no SavedModel", "load: no variables", "load: no such signature",
   "load: no such tensor"}

\* the first time_start = datetime.utcnow(): the load is timed
ItStart ==
  /\ call = NoCall
  /\ \E d \in {<<>>, OptimisedDir}, signature \in {"predict", "serving_default"},
        input_name \in {<<"input_image">>, <<"inputs">>},
        batch \in 0..MaxBatch, repeat \in 0..MaxRepeat :
       call' = [fn |-> "inference_test", pc |-> "load", d |-> d, signature |-> signature,
                input_name |-> input_name, batch |-> batch, repeat |-> repeat,
                timer |-> "loading", loads |-> <<>>, i |-> 0, calls |-> <<>>,
                output |-> PyNone, prints |-> <<>>]
  /\ UNCHANGED notebook

\* predictor = tf.contrib.predictor.from_saved_model(export_dir, signature_def_key)
ItLoad ==
  /\ call.fn = "inference_test" /\ call.pc = "load"
  /\ call' = IF inference_test(fs, call.d, call.signature, call.input_name) \in LoadErrors
               THEN [call EXCEPT !.pc = "error"]
               ELSE [call EXCEPT !.loads = Append(@, call.timer), !.pc = "loaded"]
  /\ UNCHANGED notebook

\* time_end, the loading time is printed; time_start, output = None
ItStartTimer ==
  /\ call.fn = "inference_test" /\ call.pc = "loaded"
  /\ call' = [call EXCEPT !.prints = Append(@, [line |-> "Model loading time"]),
                          !.timer = "inference", !.output = PyNone, !.i = 0, !.pc = "loop"]
  /\ UNCHANGED notebook

\* one iteration: output = predictor({input_name: eval_data[:batch]}); the
\* predictor raises for a key that is no input of the signature; for an
\* empty batch the run may raise or give empty outputs
ItLoop ==
  /\ call.fn = "inference_test" /\ call.pc = "loop"
  /\ call.i \in range(call.repeat)
  /\ LET sig == fs[call.d \o SavedModelPb].sigs[call.signature]
         fed == [timer |-> call.timer, instances |-> call.batch]
     IN  \E raises \in (IF call.input_name \notin DOMAIN sig.inputs THEN {TRUE}
                        ELSE IF call.batch = 0 THEN BOOLEAN ELSE {FALSE}) :
           call' = IF raises
                     THEN [call EXCEPT !.calls = Append(@, fed), !.pc = "error"]
                     ELSE [call EXCEPT
                             !.calls = Append(@, fed),
                             !.output = [type |-> "dict", keys |-> DOMAIN sig.outputs,
                                         len |-> call.batch, call |-> call.i + 1],
                             !.i = @ + 1]
  /\ UNCHANGED notebook

\* the loop is over: time_end, the elapsed time is printed
ItStopTimer ==
  /\ call.fn = "inference_test" /\ call.pc = "loop"
  /\ call.i \notin range(call.repeat)
  /\ call' = [call EXCEPT !.timer = "stopped",
                          !.prints = Append(@, [line |-> "Inference elapsed time"]),
                          !.pc = "report"]
  /\ UNCHANGED notebook

\* the lines the report prints before one of them raises, if one does:
\* len(output['class_ids']) for output None or without the key,
\* time_elapsed_sec/repeat for repeat 0, output[key][0] for empty outputs
inference_test_report(output, repeat) ==
  IF output.type = "None" THEN [ok |-> FALSE, prints |-> <<>>]
  ELSE IF "class_ids" \notin output.keys THEN [ok |-> FALSE, prints |-> <<>>]
  ELSE LET produced == [line |-> "Prediction produced", instances |-> output.len,
                        repeat |-> repeat]
           average == [line |-> "Average latency", elapsed_over |-> repeat]
           last == [line |-> "Prediction output for the last instance",
                    keys |-> output.keys, call |-> output.call]
       IN  IF repeat = 0 THEN [ok |-> FALSE, prints |-> <<produced>>]
           ELSE IF output.len = 0 THEN [ok |-> FALSE, prints |-> <<produced, average>>]
           ELSE [ok |-> TRUE, prints |-> <<produced, average, last>>]

ItReport ==
  /\ call.fn = "inference_test" /\ call.pc = "report"
  /\ LET r == inference_test_report(call.output, call.repeat)
     IN  call' = [call EXCEPT !.prints = @ \o r.prints,
                              !.pc = IF r.ok THEN "done" ELSE "error"]
  /\ UNCHANGED notebook

\* inference_test returns, or an exception leaves it
ItEnd ==
  /\ call.fn = "inference_test" /\ call.pc \in {"done", "error"}
  /\ call' = NoCall
  /\ UNCHANGED notebook

\* ------------------------------------------------- predict
\* the items a response may hold: with a 'class_ids' value, with or without
\* another output, and without 'class_ids'
Items ==
  { ("class_ids" :> v) : v \in 0..1 }
  \cup { ("class_ids" :> v) @@ ("probabilities" :> 9) : v \in 0..1 }
  \cup { ("probabilities" :> 9) }

\* what execute may end in, whatever was asked: it raises, or it returns
\* a body with 'predictions' or one without
ApiOutcomes ==
  { Response("raise", 0, {}), Response("error", 0, {}) }
  \cup { [kind |-> "predictions", body |-> ("predictions" :> items)]
         : items \in UNION {[1..n -> Items] : n \in 0..MaxItems} }

\* predict(version, instances): request_data is built
PredictStart ==
  /\ call = NoCall
  /\ \E version \in {"v_org", "v_opt"} :
       call' = [fn |-> "predict", pc |-> "execute", version |-> version,
                request |-> request_data(PyList(1)), outcome |-> "none",
                response |-> Response("raise", 0, {}),
                returned |-> PyNone, prints |-> <<>>]
  /\ UNCHANGED notebook

\* response = api.projects().predict(body, name).execute(): an exception
\* leaves predict
PredictExecute ==
  /\ call.fn = "predict" /\ call.pc = "execute"
  /\ \E r \in ApiOutcomes :
       call' = IF r.kind = "raise"
                 THEN [call EXCEPT !.outcome = r.kind, !.pc = "raised"]
                 ELSE [call EXCEPT !.outcome = r.kind, !.response = r, !.pc = "extract"]
  /\ UNCHANGED notebook

\* class_ids = None; the try block; return class_ids
PredictReturn ==
  /\ call.fn = "predict" /\ call.pc = "extract"
  /\ call' = [call EXCEPT !.returned = class_ids(call.response),
                          !.prints = predict_prints(call.response),
                          !.pc = "returned"]
  /\ UNCHANGED notebook

\* the caller goes on, or the exception is the caller's
PredictEnd ==
  /\ call.fn = "predict" /\ call.pc \in {"returned", "raised"}
  /\ call' = NoCall
  /\ UNCHANGED notebook

NextCalls ==
  \/ ItStart \/ ItLoad \/ ItStartTimer \/ ItLoop \/ ItStopTimer \/ ItReport \/ ItEnd
  \/ PredictStart \/ PredictExecute \/ PredictReturn \/ PredictEnd

SpecCalls == InitCalls /\ [][NextCalls]_vars

\* the call of inference_test in progress has a SavedModel, a signature and
\* an input name it can run on
ItValid ==
  /\ call.fn = "inference_test"
  /\ inference_test(fs, call.d, call.signature, call.input_name) = "ok"

ItPrinted(line) == \E k \in 1..Len(call.prints) : call.prints[k].line = line

\* C11: inference_test loads the predictor once, while the load is timed and
\* before the inference timer starts; it then calls the predictor at most
\* repeat times, each call within the inference interval on the first batch
\* instances, and exactly repeat times when the loop is over; the report is
\* of the last call, for batch instances, with the elapsed time divided by
\* repeat. With a SavedModel it can run on it completes for every repeat >= 1
\* and batch >= 1. For repeat = 0 it ends in an error after the elapsed time
\* was printed and before any line about predictions; for batch = 0 it does
\* not complete either
C11_InferenceTestLoop ==
  call.fn = "inference_test" =>
    /\ Len(call.loads) <= 1
    /\ \A k \in 1..Len(call.loads) : call.loads[k] = "loading"
    /\ call.timer # "loading" => Len(call.loads) = 1
    /\ Len(call.calls) <= call.repeat
    /\ \A k \in 1..Len(call.calls) :
         /\ call.calls[k].timer = "inference"
         /\ call.calls[k].instances = call.batch
         /\ Len(call.loads) = 1
    /\ call.pc \in {"report", "done"} =>
         /\ call.timer = "stopped"
         /\ Len(call.calls) = call.repeat
         /\ call.repeat >= 1 => call.output.call = call.repeat
    /\ call.pc = "done" =>
         /\ call.repeat >= 1 /\ call.batch >= 1
         /\ call.prints =
              << [line |-> "Model loading time"],
                 [line |-> "Inference elapsed time"],
                 [line |-> "Prediction produced", instances |-> call.batch,
                  repeat |-> call.repeat],
                 [line |-> "Average latency", elapsed_over |-> call.repeat],
                 [line |-> "Prediction output for the last instance",
                  keys |-> DOMAIN fs[call.d \o SavedModelPb].sigs[call.signature].outputs,
                  call |-> call.repeat] >>
    /\ (ItValid /\ call.repeat >= 1 /\ call.batch >= 1) => call.pc # "error"
    /\ (ItValid /\ call.repeat = 0) =>
         /\ call.pc # "done"
         /\ ~ItPrinted("Prediction produced")
         /\ call.pc = "error" =>
              call.prints = << [line |-> "Model loading time"],
                               [line |-> "Inference elapsed time"] >>
    /\ call.batch = 0 => call.pc # "done"

C11_Witness ==
  /\ call.fn = "inference_test" /\ call.pc = "done"
  /\ call.d = OptimisedDir
  /\ call.repeat >= 2 /\ call.batch >= 2
  /\ Len(call.calls) = call.repeat
  /\ ItPrinted("Average latency")

\* C11 as it is stated: for every repeat >= 1 the call completes
C11_CompletesForEveryRepeat ==
  (ItValid /\ call.repeat >= 1) => call.pc # "error"

\* the model files of SavedModel directory d: the graph file and every
\* file below variables/
ModelFiles(f, d) ==
  {p \in DOMAIN f : p = d \o SavedModelPb \/ IsPrefix(d \o <<"variables">>, p)}

RECURSIVE SumOfSizes(_, _)
SumOfSizes(f, P) ==
  IF P = {} THEN 0
  ELSE LET p == CHOOSE q \in P : TRUE
       IN  FileSize(f[p]) + SumOfSizes(f, P \ {p})

GetSizeReportIsSum(cell, d) ==
  Ran(cell) =>
    /\ cell \in DOMAIN out /\ out[cell].ok
    /\ out[cell].pb_size = FileSize(fs[d \o SavedModelPb])
    /\ out[cell].variables_size =
         IF Has(fs, d \o VariablesData)
           THEN FileSize(fs[d \o VariablesData]) + FileSize(fs[d \o VariablesIndex])
           ELSE 0
    /\ out[cell].total = out[cell].pb_size + out[cell].variables_size
    /\ out[cell].total = SumOfSizes(fs, ModelFiles(fs, d))
    /\ out[cell].variables_size = SumOfSizes(fs, ModelFiles(fs, d) \ {d \o SavedModelPb})
    /\ out[cell].prints.total = KB3(SumOfSizes(fs, ModelFiles(fs, d)))

\* C12: the total get_size reports is the size of saved_model.pb plus the
\* variables size, which is the size of the variables data file plus that of
\* variables.index when the data file exists and 0 otherwise; for the
\* original and for the optimised SavedModel directory it is the sum of the
\* sizes of the graph file and of every file below variables/, printed in KB
\* rounded to three decimals
C12_TotalIsSumOfModelFiles ==
  /\ GetSizeReportIsSum("get_size_original", <<>>)
  /\ GetSizeReportIsSum("get_size_optimised", <<"optimised">>)

C12_Witness ==
  /\ Ran("get_size_optimised")
  /\ out["get_size_original"].ok /\ out["get_size_optimised"].ok
  /\ Cardinality(ModelFiles(fs, <<>>)) = 3
  /\ ModelFiles(fs, <<"optimised">>) = {<<"optimised", "saved_model.pb">>}
  /\ out["get_size_original"].variables_size > FileSize(fs[VariablesData])
  /\ out["get_size_original"].total > out["get_size_original"].pb_size
  /\ out["get_size_optimised"].total = out["get_size_optimised"].pb_size
  /\ out["get_size_optimised"].prints.total > 0

\* response["predictions"] exists and each of its items has 'class_ids'
WellFormed(body) ==
  /\ "predictions" \in DOMAIN body
  /\ \A i \in 1..Len(body["predictions"]) : "class_ids" \in DOMAIN body["predictions"][i]

\* C13: for a well-formed response predict returns the 'class_ids' values of
\* the items of response['predictions'], one per item and in their order,
\* and prints nothing; for a response without 'predictions' or with an item
\* without 'class_ids' it prints the response and returns None; when
\* execute raises, predict neither prints nor returns: the exception leaves it
C13_PredictReturnsClassIds ==
  call.fn = "predict" =>
    /\ call.pc = "returned" =>
         LET body == call.response.body
         IN  /\ call.outcome # "raise"
             /\ WellFormed(body) =>
                  /\ call.returned.type = "list"
                  /\ call.returned.len = Len(body["predictions"])
                  /\ \A i \in 1..Len(body["predictions"]) :
                       call.returned.items[i] = body["predictions"][i]["class_ids"]
                  /\ call.prints = <<>>
             /\ ~WellFormed(body) =>
                  /\ call.returned = [type |-> "None", len |-> 0]
                  /\ call.prints = << body >>
    /\ call.outcome = "raise" =>
         /\ call.pc = "raised"
         /\ call.returned = [type |-> "None", len |-> 0]
         /\ call.prints = <<>>
    /\ call.pc = "raised" => call.outcome = "raise"

C13_Witness ==
  /\ call.fn = "predict" /\ call.pc = "returned"
  /\ WellFormed(call.response.body)
  /\ call.returned.len = 2
  /\ call.returned.items = <<1, 0>>
  /\ "probabilities" \in DOMAIN call.response.body["predictions"][2]
============================================================================
